---------------------------- MODULE Spec2Model ----------------------------
(***************************************************************************)
(* Model of the electrical-installation quotation app (src/app.py).        *)
(*                                                                         *)
(* The app is a Streamlit script.  Every user interaction reruns the       *)
(* script top to bottom in the session's thread: load_assets() (cached by  *)
(* st.cache_resource), the widgets, and, when the button was pressed, the  *)
(* quotation block: one-hot encoding against feature_columns, the model's  *)
(* prediction, the state multiplier, the 65/35 breakdown and the grouped   *)
(* feature importances.                                                    *)
(*                                                                         *)
(* Costs, multipliers and importances are Python floats (IEEE binary64).   *)
(* They are modelled as binary64 values: a 53-bit mantissa, held as a      *)
(* sequence of limbs, and a binary exponent; products and sums round to    *)
(* nearest, ties to even, as the hardware does.  Values stay far from the  *)
(* overflow and subnormal ranges, which are not modelled; all values are   *)
(* non-negative.                                                           *)
(***************************************************************************)
EXTENDS Integers, Sequences, FiniteSets

(***************************************************************************)
(* Natural numbers of any size: little-endian sequences of limbs below     *)
(* Radix, without leading zero limbs (zero is the empty sequence).         *)
(***************************************************************************)
LimbBits == 15

Radix == 2 ^ LimbBits

RECURSIVE Trim(_)
Trim(a) ==
    IF a = <<>> THEN <<>>
    ELSE IF a[Len(a)] = 0 THEN Trim(SubSeq(a, 1, Len(a) - 1))
    ELSE a

RECURSIVE FromNat(_)
FromNat(n) ==
    IF n = 0 THEN <<>> ELSE <<n % Radix>> \o FromNat(n \div Radix)

Limb(a, i) == IF i <= Len(a) THEN a[i] ELSE 0

\* the carry into limb i of a + b: some lower limb overflows and every limb
\* between passes the carry on
Carry(a, b, i) ==
    IF \E j \in 1..(i - 1) :
          /\ Limb(a, j) + Limb(b, j) >= Radix
          /\ \A h \in (j + 1)..(i - 1) : Limb(a, h) + Limb(b, h) = Radix - 1
    THEN 1 ELSE 0

BigAdd(a, b) ==
    LET n == IF Len(a) < Len(b) THEN Len(b) ELSE Len(a)
    IN  Trim([i \in 1..(n + 1) |->
                (Limb(a, i) + Limb(b, i) + Carry(a, b, i)) % Radix])

\* the borrow from limb i of a - b: some lower limb falls short and every
\* limb between passes the borrow on
Borrow(a, b, i) ==
    IF \E j \in 1..(i - 1) :
          /\ Limb(a, j) < Limb(b, j)
          /\ \A h \in (j + 1)..(i - 1) : Limb(a, h) = Limb(b, h)
    THEN 1 ELSE 0

\* a - b, for a >= b
BigSub(a, b) ==
    Trim([i \in 1..Len(a) |->
            (Radix + Limb(a, i) - Limb(b, i) - Borrow(a, b, i)) % Radix])

\* a against b of the same length, decided by the top limb that differs
CmpFrom(a, b) ==
    LET differ == {i \in 1..Len(a) : a[i] # b[i]}
    IN  IF differ = {} THEN 0
        ELSE LET top == CHOOSE i \in differ : \A j \in differ : j <= i
             IN  IF a[top] < b[top] THEN -1 ELSE 1

\* -1, 0 or 1 as a < b, a = b or a > b
BigCmp(a, b) ==
    IF Len(a) < Len(b) THEN -1
    ELSE IF Len(a) > Len(b) THEN 1
    ELSE CmpFrom(a, b)

RECURSIVE MulLimbFrom(_, _, _, _)
MulLimbFrom(a, k, i, carry) ==
    IF i > Len(a)
    THEN (IF carry = 0 THEN <<>> ELSE <<carry>>)
    ELSE LET t == a[i] * k + carry
         IN  <<t % Radix>> \o MulLimbFrom(a, k, i + 1, t \div Radix)

\* a * k, for one limb k
BigMulLimb(a, k) == IF k = 0 THEN <<>> ELSE MulLimbFrom(a, k, 1, 0)

RECURSIVE BigMul(_, _)
BigMul(a, b) ==
    IF a = <<>> \/ b = <<>> THEN <<>>
    ELSE LET rest == BigMul(a, Tail(b))
         IN  IF rest = <<>> THEN BigMulLimb(a, Head(b))
             ELSE BigAdd(BigMulLimb(a, Head(b)), <<0>> \o rest)

Zeros(n) == [i \in 1..n |-> 0]

\* a * 2^n
BigShl(a, n) ==
    IF a = <<>> THEN <<>>
    ELSE LET r == n % LimbBits
         IN  Zeros(n \div LimbBits)
             \o Trim([i \in 1..(Len(a) + 1) |->
                        ((Limb(a, i) * (2 ^ r)) % Radix)
                        + (IF i = 1 THEN 0 ELSE a[i - 1] \div (2 ^ (LimbBits - r)))])

\* a \div 2^n
BigShr(a, n) ==
    IF n \div LimbBits >= Len(a) THEN <<>>
    ELSE LET w == n \div LimbBits
             r == n % LimbBits
         IN  Trim([i \in 1..(Len(a) - w) |->
                     (a[i + w] \div (2 ^ r))
                     + ((Limb(a, i + w + 1) % (2 ^ r)) * (2 ^ (LimbBits - r)))])

\* the number of bits of one limb n (0 for zero)
NatBits(n) == CHOOSE k \in 0..LimbBits : n < 2 ^ k /\ (k = 0 \/ n >= 2 ^ (k - 1))

\* the number of bits of a (0 for zero)
BitLen(a) ==
    IF a = <<>> THEN 0 ELSE LimbBits * (Len(a) - 1) + NatBits(a[Len(a)])

IsOdd(a) == a # <<>> /\ a[1] % 2 = 1

(***************************************************************************)
(* binary64: the value m * 2^e with 2^52 <= m < 2^53, or zero.             *)
(***************************************************************************)
MantissaBits == 53

Zero == [m |-> <<>>, e |-> 0]

\* n * 2^e rounded to nearest, ties to even
Round(n, e) ==
    LET bits == BitLen(n)
    IN  IF n = <<>> THEN Zero
        ELSE IF bits <= MantissaBits
        THEN [m |-> BigShl(n, MantissaBits - bits), e |-> e - (MantissaBits - bits)]
        ELSE LET k    == bits - MantissaBits
                 q    == BigShr(n, k)
                 r    == BigSub(n, BigShl(q, k))
                 half == BigShl(<<1>>, k - 1)
                 c    == BigCmp(r, half)
                 up   == c = 1 \/ (c = 0 /\ IsOdd(q))
                 q1   == IF up THEN BigAdd(q, <<1>>) ELSE q
             IN  IF BitLen(q1) > MantissaBits
                 THEN [m |-> BigShr(q1, 1), e |-> e + k + 1]
                 ELSE [m |-> q1, e |-> e + k]

\* Python's a * b
fmul(a, b) ==
    IF a.m = <<>> \/ b.m = <<>> THEN Zero
    ELSE Round(BigMul(a.m, b.m), a.e + b.e)

\* the exact sum a + b, as a pair <<n, e>> with value n * 2^e
ExactSum(a, b) ==
    IF a.m = <<>> THEN <<b.m, b.e>>
    ELSE IF b.m = <<>> THEN <<a.m, a.e>>
    ELSE LET e == IF a.e < b.e THEN a.e ELSE b.e
         IN  <<BigAdd(BigShl(a.m, a.e - e), BigShl(b.m, b.e - e)), e>>

\* Python's a + b
fadd(a, b) ==
    IF a.m = <<>> THEN b
    ELSE IF b.m = <<>> THEN a
    ELSE LET s == ExactSum(a, b) IN Round(s[1], s[2])

\* -1, 0 or 1 as a < b, a = b or a > b
fcmp(a, b) ==
    IF a.m = <<>> /\ b.m = <<>> THEN 0
    ELSE IF a.m = <<>> THEN -1
    ELSE IF b.m = <<>> THEN 1
    ELSE IF a.e < b.e THEN -1
    ELSE IF a.e > b.e THEN 1
    ELSE BigCmp(a.m, b.m)

GuardLimbs == 5

RECURSIVE PowMod(_, _)
\* Radix^j modulo d
PowMod(j, d) ==
    IF j = 0 THEN 1 % d
    ELSE LET h == PowMod(j \div 2, d)
         IN  IF j % 2 = 0 THEN (h * h) % d
             ELSE (((h * h) % d) * (Radix % d)) % d

\* the remainder of n * Radix^j by d
Remainder(n, d, j) == ((n % d) * PowMod(j, d)) % d

\* the float a decimal literal denotes: n / d (0 < d < Radix) rounded once.
\* The quotient is taken to GuardLimbs limbs behind the point, by long
\* division; what is left of it only counts as being there (sticky).
Float(n, d) ==
    LET fraction == [i \in 1..GuardLimbs |->
                       (Remainder(n, d, GuardLimbs - i) * Radix) \div d]
        q        == Trim(fraction \o FromNat(n \div d))
        sticky   == IF Remainder(n, d, GuardLimbs) = 0 THEN <<>> ELSE <<1>>
    IN  Round(BigAdd(BigShl(q, 1), sticky), 0 - (GuardLimbs * LimbBits + 1))

(***************************************************************************)
(* Python strings that are searched or concatenated: sequences of          *)
(* characters.                                                             *)
(***************************************************************************)
s_state ==
    <<"s", "t", "a", "t", "e">>

s_building_type ==
    <<"b", "u", "i", "l", "d", "i", "n", "g", "_", "t", "y", "p", "e">>

s_floor_area_m2 ==
    <<"f", "l", "o", "o", "r", "_", "a", "r", "e", "a", "_", "m", "2">>

s_rooms ==
    <<"r", "o", "o", "m", "s">>

s_lighting_points ==
    <<"l", "i", "g", "h", "t", "i", "n", "g", "_", "p", "o", "i", "n", "t", "s">>

s_socket_points ==
    <<"s", "o", "c", "k", "e", "t", "_", "p", "o", "i", "n", "t", "s">>

s_switch_points ==
    <<"s", "w", "i", "t", "c", "h", "_", "p", "o", "i", "n", "t", "s">>

s_cable_length_m ==
    <<"c", "a", "b", "l", "e", "_", "l", "e", "n", "g", "t", "h", "_", "m">>

s_conduit_length_m ==
    <<"c", "o", "n", "d", "u", "i", "t", "_", "l", "e", "n", "g", "t", "h", "_", "m">>

s_labour_type ==
    <<"l", "a", "b", "o", "u", "r", "_", "t", "y", "p", "e">>

s_floor_area ==
    <<"f", "l", "o", "o", "r", "_", "a", "r", "e", "a">>

s_cable_length ==
    <<"c", "a", "b", "l", "e", "_", "l", "e", "n", "g", "t", "h">>

s_conduit_length ==
    <<"c", "o", "n", "d", "u", "i", "t", "_", "l", "e", "n", "g", "t", "h">>

s_Lagos ==
    <<"L", "a", "g", "o", "s">>

s_Abuja ==
    <<"A", "b", "u", "j", "a">>

s_Rivers ==
    <<"R", "i", "v", "e", "r", "s">>

s_Oyo ==
    <<"O", "y", "o">>

s_Ogun ==
    <<"O", "g", "u", "n">>

s_Kwara ==
    <<"K", "w", "a", "r", "a">>

s_Kano ==
    <<"K", "a", "n", "o">>

s_Residential ==
    <<"R", "e", "s", "i", "d", "e", "n", "t", "i", "a", "l">>

s_Commercial ==
    <<"C", "o", "m", "m", "e", "r", "c", "i", "a", "l">>

s_Industrial ==
    <<"I", "n", "d", "u", "s", "t", "r", "i", "a", "l">>

s_Standard ==
    <<"S", "t", "a", "n", "d", "a", "r", "d">>

s_Skilled ==
    <<"S", "k", "i", "l", "l", "e", "d">>

s_Highly_Skilled ==
    <<"H", "i", "g", "h", "l", "y", " ", "S", "k", "i", "l", "l", "e", "d">>

s_num_rooms ==
    <<"n", "u", "m", "_", "r", "o", "o", "m", "s">>

s_num_lights ==
    <<"n", "u", "m", "_", "l", "i", "g", "h", "t", "s">>

s_num_sockets ==
    <<"n", "u", "m", "_", "s", "o", "c", "k", "e", "t", "s">>

s_floor_area_per_rooms ==
    <<"f", "l", "o", "o", "r", "_", "a", "r", "e", "a", "_", "p", "e", "r", "_", "r", "o", "o", "m", "s">>

(***************************************************************************)
(* The configuration of the script.                                        *)
(***************************************************************************)
\* the dict STATE_MULTIPLIERS, in insertion order: <<key, value>> items
STATE_MULTIPLIERS ==
    << <<s_Lagos,  Float(115, 100)>>,
       <<s_Abuja,  Float(112, 100)>>,
       <<s_Rivers, Float(110, 100)>>,
       <<s_Oyo,    Float(100, 100)>>,
       <<s_Ogun,   Float(95, 100)>>,
       <<s_Kwara,  Float(92, 100)>> >>

\* list(dict.keys())
keys(dict) == [i \in 1..Len(dict) |-> dict[i][1]]

Range(s) == {s[i] : i \in 1..Len(s)}

\* the options of the three select boxes
StateOptions == keys(STATE_MULTIPLIERS)

BuildingTypeOptions == <<s_Residential, s_Commercial, s_Industrial>>

LabourTypeOptions == <<s_Standard, s_Skilled, s_Highly_Skilled>>

DefaultMultiplier == Float(1, 1)

\* faulty variant of GetItem: dict.get(key, 1.0), a silent default
GetWithDefault(dict, key) ==
    LET hits == SelectSeq(dict, LAMBDA item : item[1] = key)
    IN  IF hits = <<>> THEN <<DefaultMultiplier>> ELSE <<hits[1][2]>>

\* dict[key]: <<value>>, or <<>> where Python raises KeyError
GetItem(dict, key) ==
    LET hits == SelectSeq(dict, LAMBDA item : item[1] = key)
    IN  IF hits = <<>> THEN <<>> ELSE <<hits[1][2]>>

(***************************************************************************)
(* One-hot encoding (the data frame of one row is a sequence of columns).  *)
(***************************************************************************)
\* pd.DataFrame([{...}]): the columns in the dict's order, strings with
\* dtype object
input_df(d) ==
    << [name |-> s_state,            dtype |-> "object", text |-> d.state,         number |-> 0],
       [name |-> s_building_type,    dtype |-> "object", text |-> d.building_type, number |-> 0],
       [name |-> s_floor_area_m2,    dtype |-> "float64", text |-> <<>>, number |-> d.floor_area_m2],
       [name |-> s_rooms,            dtype |-> "int64",   text |-> <<>>, number |-> d.rooms],
       [name |-> s_lighting_points,  dtype |-> "int64",   text |-> <<>>, number |-> d.lighting_points],
       [name |-> s_socket_points,    dtype |-> "int64",   text |-> <<>>, number |-> d.socket_points],
       [name |-> s_switch_points,    dtype |-> "int64",   text |-> <<>>, number |-> d.switch_points],
       [name |-> s_cable_length_m,   dtype |-> "float64", text |-> <<>>, number |-> d.cable_length_m],
       [name |-> s_conduit_length_m, dtype |-> "float64", text |-> <<>>, number |-> d.conduit_length_m],
       [name |-> s_labour_type,      dtype |-> "object", text |-> d.labour_type,   number |-> 0] >>

\* faulty variant of get_dummies: the indicator columns named by the value
\* alone, without the <column>_ prefix
get_dummies_unprefixed(df) ==
    LET kept    == SelectSeq(df, LAMBDA c : c.dtype # "object")
        encoded == SelectSeq(df, LAMBDA c : c.dtype = "object")
    IN  [i \in 1..Len(kept) |-> <<kept[i].name, kept[i].number>>]
        \o [i \in 1..Len(encoded) |-> <<encoded[i].text, 1>>]

\* pd.get_dummies(df): the numeric columns as they are, then for each object
\* column one indicator column <column>_<value> per value in the data (the
\* one row's value), set to 1.  A column of the result is <<name, value>>.
get_dummies(df) ==
    LET kept    == SelectSeq(df, LAMBDA c : c.dtype # "object")
        encoded == SelectSeq(df, LAMBDA c : c.dtype = "object")
    IN  [i \in 1..Len(kept) |-> <<kept[i].name, kept[i].number>>]
        \o [i \in 1..Len(encoded) |->
               <<encoded[i].name \o <<"_">> \o encoded[i].text, 1>>]

columns(frame) == [i \in 1..Len(frame) |-> frame[i][1]]

\* for col in feature_columns: if col not in frame.columns: frame[col] = 0
\* The loop appends, in the order of feature_columns, a zero column for
\* each name the frame lacks (once: after that the frame has it).
ZeroFill(frame, feature_columns) ==
    LET missing == SelectSeq([i \in 1..Len(feature_columns) |-> i],
                             LAMBDA i :
                                /\ feature_columns[i] \notin Range(columns(frame))
                                /\ \A j \in 1..(i - 1) :
                                      feature_columns[j] # feature_columns[i])
    IN  frame \o [k \in 1..Len(missing) |-> <<feature_columns[missing[k]], 0>>]

\* faulty variant of Select: the selection left out
SelectNothing(frame, feature_columns) == frame

\* faulty variant of Select: the first len(feature_columns) columns,
\* relabelled with feature_columns
SelectByPosition(frame, feature_columns) ==
    [i \in 1..Len(feature_columns) |-> <<feature_columns[i], frame[i][2]>>]

\* frame[feature_columns]
Select(frame, feature_columns) ==
    [i \in 1..Len(feature_columns) |->
        frame[CHOOSE j \in 1..Len(frame) : frame[j][1] = feature_columns[i]]]

\* input_encoded as handed to the model
Encode(d, feature_columns) ==
    Select(ZeroFill(get_dummies(input_df(d)), feature_columns), feature_columns)

(***************************************************************************)
(* The trained model: a regression tree (the model exposes                 *)
(* feature_importances_), held as scikit-learn holds it, an array of       *)
(* nodes.  A node with feature 0 is a leaf; a sample goes left when its    *)
(* value of the node's feature (a position in feature_columns) is at most  *)
(* the threshold.                                                          *)
(***************************************************************************)
Leaf(value) ==
    [feature |-> 0, threshold |-> 0, left |-> 0, right |-> 0, value |-> value]

Split(feature, threshold, left, right) ==
    [feature |-> feature, threshold |-> threshold, left |-> left,
     right |-> right, value |-> Zero]

RECURSIVE Descend(_, _, _)
Descend(tree, X, node) ==
    IF tree[node].feature = 0 THEN tree[node].value
    ELSE IF X[tree[node].feature][2] <= tree[node].threshold
    THEN Descend(tree, X, tree[node].left)
    ELSE Descend(tree, X, tree[node].right)

\* model.predict(input_encoded)[0]
predict(model, X) == Descend(model.tree, X, 1)

(***************************************************************************)
(* Cost figures.                                                           *)
(***************************************************************************)
\* faulty variant of total_cost: the multiplier not applied
total_cost_unadjusted(base_cost, multiplier) == base_cost

total_cost(base_cost, multiplier) == fmul(base_cost, multiplier)

\* the literal 0.65
MaterialShare == Float(65, 100)

material_cost(total) == fmul(total, MaterialShare)

ThirtyPercent == Float(30, 100)

\* faulty variant of labour_cost: a share that does not complement 0.65
labour_cost_30(total) == fmul(total, ThirtyPercent)

\* the literal 0.35
LabourShare == Float(35, 100)

labour_cost(total) == fmul(total, LabourShare)

(***************************************************************************)
(* Feature importances.  A Series is a sequence of <<label, value>>.       *)
(***************************************************************************)
\* s[i] comes before s[j] in the sorted series: by value, equal values in
\* the order they have in s
Precedes(s, i, j, ascending) ==
    LET c == fcmp(s[i][2], s[j][2])
    IN  c = (IF ascending THEN -1 ELSE 1) \/ (c = 0 /\ i < j)

\* faulty variant of sort_values: the series left as it is
unsorted(s, ascending) == s

\* Series.sort_values(ascending=...); equal values keep their order: each
\* item goes to the place behind the items that come before it
sort_values(s, ascending) ==
    IF Len(s) = 0 THEN <<>>
    ELSE LET place == [i \in 1..Len(s) |->
                         1 + Cardinality({j \in 1..Len(s) :
                                            Precedes(s, j, i, ascending)})]
         IN  [p \in 1..Len(place) |-> s[CHOOSE i \in 1..Len(s) : place[i] = p]]

\* faulty variant of Contains: label.startswith(like)
StartsWithPattern(like, label) ==
    Len(like) <= Len(label) /\ SubSeq(label, 1, Len(like)) = like

\* like in label: label[i : i + len(like)] == like at some i
Contains(like, label) ==
    \E i \in 1..(Len(label) - Len(like) + 1) :
        label[i] = like[1] /\ SubSeq(label, i, i + Len(like) - 1) = like

\* Series.filter(like=...)
filter(s, like) == SelectSeq(s, LAMBDA item : Contains(like, item[1]))

RECURSIVE SumFrom(_, _, _)
\* acc is the total of s[1..i-1]; each step rounds the running total
SumFrom(s, i, acc) ==
    IF i > Len(s) THEN acc
    ELSE LET total == fadd(acc, s[i][2])
         IN  IF total = Zero
             THEN SumFrom(s, i + 1, Zero)
             ELSE SumFrom(s, i + 1, total)

\* Series.sum(): the values added left to right (as numpy adds fewer than
\* 8 of them), from 0.0
sum(s) == SumFrom(s, 1, Zero)

\* pd.Series(model.feature_importances_, index=feature_columns)
\*   .sort_values(ascending=False)
importance(model, feature_columns) ==
    sort_values([i \in 1..Len(feature_columns) |->
                    <<feature_columns[i], model.feature_importances_[i]>>],
                FALSE)

\* the display categories and their patterns, in the dict's order
GROUPS ==
    << <<"Floor Area",      s_floor_area>>,
       <<"Rooms",           s_rooms>>,
       <<"Lighting Points", s_lighting_points>>,
       <<"Socket Points",   s_socket_points>>,
       <<"Switch Points",   s_switch_points>>,
       <<"Cable Length",    s_cable_length>>,
       <<"Conduit Length",  s_conduit_length>>,
       <<"Building Type",   s_building_type>>,
       <<"Labour Skill",    s_labour_type>>,
       <<"State Factor",    s_state>> >>

importance_groups(imp) ==
    [g \in 1..Len(GROUPS) |-> <<GROUPS[g][1], sum(filter(imp, GROUPS[g][2]))>>]

\* pd.Series(importance_groups).sort_values(ascending=True)
importance_df(model, feature_columns) ==
    sort_values(importance_groups(importance(model, feature_columns)), TRUE)

(***************************************************************************)
(* The block under the button, for the widget values d and the loaded      *)
(* model and feature_columns: everything it computes, up to the first      *)
(* exception.  shown holds what reaches the page.                          *)
(***************************************************************************)
GenerateQuotation(d, model, feature_columns) ==
    LET input_encoded == Encode(d, feature_columns)
        base_cost     == predict(model, input_encoded)
        multiplier    == GetItem(STATE_MULTIPLIERS, d.state)
    IN  IF multiplier = <<>>
        THEN [input_encoded |-> input_encoded, base_cost |-> base_cost,
              error |-> "KeyError", shown |-> <<>>]
        ELSE LET total == total_cost(base_cost, multiplier[1])
             IN  [input_encoded |-> input_encoded, base_cost |-> base_cost,
                  error |-> "",
                  shown |-> <<[total_cost    |-> total,
                               multiplier    |-> multiplier[1],
                               material_cost |-> material_cost(total),
                               labour_cost   |-> labour_cost(total),
                               importance_df |-> importance_df(model, feature_columns)]>>]

(***************************************************************************)
(* The pickled artifacts the script may be deployed with: the model and    *)
(* the feature_columns it was fitted on.                                   *)
(***************************************************************************)
\* the name get_dummies gives the indicator column of a field's category
indicator(field, category) == field \o <<"_">> \o category

\* fitted on the app's own ten fields, every category seen in training
FullColumns ==
    << s_floor_area_m2, s_rooms, s_lighting_points, s_socket_points,
       s_switch_points, s_cable_length_m, s_conduit_length_m,
       indicator(s_state, s_Abuja), indicator(s_state, s_Kwara),
       indicator(s_state, s_Lagos), indicator(s_state, s_Ogun),
       indicator(s_state, s_Oyo), indicator(s_state, s_Rivers),
       indicator(s_building_type, s_Commercial),
       indicator(s_building_type, s_Industrial),
       indicator(s_building_type, s_Residential),
       indicator(s_labour_type, s_Highly_Skilled),
       indicator(s_labour_type, s_Skilled),
       indicator(s_labour_type, s_Standard) >>

\* a tree on the floor area (column 1) and on state_Lagos (column 10)
FullArtifact ==
    [model |->
        [tree |-> << Split(1, 50, 2, 3),
                     Leaf(Float(199000, 1)),
                     Split(10, 0, 4, 5),
                     Leaf(Float(1000000, 1)),
                     Leaf(Float(123456789, 100)) >>,
         feature_importances_ |->
            << Float(30, 100), Float(10, 100), Float(8, 100), Float(7, 100),
               Float(5, 100), Float(10, 100), Float(5, 100),
               Float(2, 100), Float(1, 100), Float(6, 100), Float(1, 100),
               Float(2, 100), Float(3, 100),
               Float(3, 100), Float(2, 100), Float(1, 100),
               Float(2, 100), Float(1, 100), Float(1, 100) >>],
     feature_columns |-> FullColumns]

\* the other variant's columns (num_rooms, num_lights, num_sockets), few
\* categories seen in training
VariantColumns ==
    << s_floor_area_m2, s_num_rooms, s_num_lights, s_num_sockets,
       indicator(s_state, s_Lagos), indicator(s_state, s_Abuja),
       indicator(s_building_type, s_Residential),
       indicator(s_building_type, s_Commercial),
       indicator(s_labour_type, s_Standard) >>

\* a stub: one leaf, all importances equal
VariantArtifact ==
    [model |->
        [tree |-> << Leaf(Float(1000000, 1)) >>,
         feature_importances_ |-> [i \in 1..Len(VariantColumns) |-> Float(1, 9)]],
     feature_columns |-> VariantColumns]

\* columns in another order, one that two patterns match, one named as a
\* raw field, one indicator of a category no widget offers
MixedColumns ==
    << indicator(s_labour_type, s_Skilled), s_rooms, s_floor_area_per_rooms,
       indicator(s_state, s_Kano), s_labour_type, s_cable_length_m,
       indicator(s_state, s_Lagos), indicator(s_state, s_Ogun) >>

\* a tree on the rooms (column 2) and on labour_type_Skilled (column 1)
MixedArtifact ==
    [model |->
        [tree |-> << Split(2, 2, 2, 3),
                     Leaf(Float(425000, 1)),
                     Split(1, 0, 4, 5),
                     Leaf(Float(850000, 1)),
                     Leaf(Float(2500005, 10)) >>,
         feature_importances_ |->
            << Float(1, 10), Float(2, 10), Float(3, 10), Float(0, 1),
               Float(5, 100), Float(15, 100), Float(12, 100), Float(8, 100) >>],
     feature_columns |-> MixedColumns]

Artifacts == {FullArtifact, VariantArtifact, MixedArtifact}

(***************************************************************************)
(* Widget values.                                                          *)
(***************************************************************************)
MaxScale == 1

\* the values of the widgets: the numeric ones at their minimum (k = 0) or
\* k times a sample project above it
Description(state, building_type, labour_type, k) ==
    [state            |-> state,
     building_type    |-> building_type,
     labour_type      |-> labour_type,
     floor_area_m2    |-> 10 + 90 * k,
     rooms            |-> 1 + 2 * k,
     lighting_points  |-> 1 + 9 * k,
     socket_points    |-> 1 + 7 * k,
     switch_points    |-> 1 + 5 * k,
     cable_length_m   |-> 1 + 149 * k,
     conduit_length_m |-> 1 + 119 * k]

\* what the widgets can return
WidgetDescriptions ==
    { Description(st, bt, lt, k) :
        st \in Range(StateOptions), bt \in Range(BuildingTypeOptions),
        lt \in Range(LabourTypeOptions), k \in 0..MaxScale }

\* the descriptions the sessions of Spec submit: every state, the smallest
\* and the largest project, the other select boxes at their first option
SessionDescriptions ==
    { Description(st, BuildingTypeOptions[1], LabourTypeOptions[1], k) :
        st \in Range(StateOptions), k \in {0, MaxScale} }

\* the values the block under the button is applied to in SpecEngine: the
\* widgets' and a state that is no key of STATE_MULTIPLIERS
EngineDescriptions ==
    WidgetDescriptions
    \cup { Description(s_Kano, bt, lt, k) :
             bt \in Range(BuildingTypeOptions),
             lt \in Range(LabourTypeOptions), k \in 0..MaxScale }

(***************************************************************************)
(* The process.                                                            *)
(***************************************************************************)
NumSessions == 2

Sessions == 1..NumSessions

VARIABLES
    storage,    \* the two pickle files: [model, feature_columns]
    cache,      \* st.cache_resource's entry for load_assets: <<>> or <<value>>
    lock,       \* the session computing the cache entry, or 0
    loads,      \* how many times the body of load_assets ran
    pc,         \* where each session's script run is
    assets,     \* each run's globals model, feature_columns: <<>> or <<value>>
    request,    \* the widget values of the latest finished run (and whether
                \* they repeat a pressed request right before it)
    quotation   \* what the latest finished run computed and showed

vars == <<storage, cache, lock, loads, pc, assets, request, quotation>>

Init ==
    /\ storage \in Artifacts
    /\ cache = <<>>
    /\ lock = 0
    /\ loads = 0
    /\ pc = [s \in Sessions |-> "idle"]
    /\ assets = [s \in Sessions |-> <<>>]
    /\ request = <<>>
    /\ quotation = <<>>

\* faulty variant of Rerun: load_assets without st.cache_resource, its body
\* run by every run of the script
RerunUncached(s) ==
    /\ pc[s] = "idle"
    /\ pc' = [pc EXCEPT ![s] = "compute"]
    /\ UNCHANGED <<storage, cache, lock, loads, assets, request, quotation>>

\* a widget changed or the button was pressed: the script runs again, in a
\* fresh namespace, and calls load_assets(), which returns the cached value
\* if there is one
Rerun(s) ==
    /\ pc[s] = "idle"
    /\ IF cache # <<>>
       THEN /\ assets' = [assets EXCEPT ![s] = cache]
            /\ pc' = [pc EXCEPT ![s] = "widgets"]
       ELSE /\ assets' = assets
            /\ pc' = [pc EXCEPT ![s] = "lock"]
    /\ UNCHANGED <<storage, cache, lock, loads, request, quotation>>

\* on a miss the run takes the function's lock and reads the cache again
LockAcquire(s) ==
    /\ pc[s] = "lock"
    /\ lock = 0
    /\ IF cache # <<>>
       THEN /\ assets' = [assets EXCEPT ![s] = cache]
            /\ pc' = [pc EXCEPT ![s] = "widgets"]
            /\ lock' = 0
       ELSE /\ assets' = assets
            /\ pc' = [pc EXCEPT ![s] = "compute"]
            /\ lock' = s
    /\ UNCHANGED <<storage, cache, loads, request, quotation>>

\* the body of load_assets: both files are unpickled, the pair is cached
Compute(s) ==
    /\ pc[s] = "compute"
    /\ loads' = loads + 1
    /\ cache' = <<storage>>
    /\ assets' = [assets EXCEPT ![s] = <<storage>>]
    /\ lock' = 0
    /\ pc' = [pc EXCEPT ![s] = "widgets"]
    /\ UNCHANGED <<storage, request, quotation>>

Reverse(s) == [i \in 1..Len(s) |-> s[Len(s) + 1 - i]]

\* faulty variant of ScriptRun: the block reorders the shared
\* feature_columns list in place (feature_columns.reverse())
ScriptRunReordering(s, d, pressed) ==
    /\ pc[s] = "widgets"
    /\ request' = <<[description |-> d, pressed |-> pressed,
                      repeated |-> /\ pressed
                                   /\ request # <<>>
                                   /\ request[1].pressed
                                   /\ request[1].description = d]>>
    /\ quotation' =
          IF pressed
          THEN <<GenerateQuotation(d, assets[s][1].model, assets[s][1].feature_columns)>>
          ELSE <<>>
    /\ cache' =
          IF pressed
          THEN <<[cache[1] EXCEPT !.feature_columns = Reverse(cache[1].feature_columns)]>>
          ELSE cache
    /\ pc' = [pc EXCEPT ![s] = "idle"]
    /\ assets' = [assets EXCEPT ![s] = <<>>]
    /\ UNCHANGED <<storage, lock, loads>>

\* the rest of the script: the widgets return d, the button returns pressed
ScriptRun(s, d, pressed) ==
    /\ pc[s] = "widgets"
    /\ request' = <<[description |-> d, pressed |-> pressed,
                      repeated |-> /\ pressed
                                   /\ request # <<>>
                                   /\ request[1].pressed
                                   /\ request[1].description = d]>>
    /\ quotation' =
          IF pressed
          THEN <<GenerateQuotation(d, assets[s][1].model, assets[s][1].feature_columns)>>
          ELSE <<>>
    /\ pc' = [pc EXCEPT ![s] = "idle"]
    /\ assets' = [assets EXCEPT ![s] = <<>>]
    /\ UNCHANGED <<storage, cache, lock, loads>>

Next ==
    \E s \in Sessions :
        \/ Rerun(s)
        \/ LockAcquire(s)
        \/ Compute(s)
        \/ \E d \in SessionDescriptions, pressed \in BOOLEAN : ScriptRun(s, d, pressed)

Spec == Init /\ [][Next]_vars

(***************************************************************************)
(* The block under the button as a function: one run that has loaded its   *)
(* assets and is about to read the widgets, which may return any of        *)
(* EngineDescriptions.                                                     *)
(***************************************************************************)
EngineInit ==
    /\ storage \in Artifacts
    /\ cache = <<storage>>
    /\ lock = 0
    /\ loads = 1
    /\ pc = [s \in Sessions |-> IF s = 1 THEN "widgets" ELSE "idle"]
    /\ assets = [s \in Sessions |-> IF s = 1 THEN <<storage>> ELSE <<>>]
    /\ request = <<>>
    /\ quotation = <<>>

EngineNext == \E d \in EngineDescriptions : ScriptRun(1, d, TRUE)

SpecEngine == EngineInit /\ [][EngineNext]_vars

(***************************************************************************)
(* Exact arithmetic on the values of floats, for stating the properties:   *)
(* the number n * 2^e is the pair <<n, e>>.                                *)
(***************************************************************************)
Exact(x) == <<x.m, x.e>>

MinOf(a, b) == IF a < b THEN a ELSE b

\* the numerators of x and y over their common power of two
Aligned(x, y) ==
    LET e == MinOf(x[2], y[2])
    IN  <<BigShl(x[1], x[2] - e), BigShl(y[1], y[2] - e), e>>

Plus(x, y) ==
    IF x[1] = <<>> THEN y
    ELSE IF y[1] = <<>> THEN x
    ELSE LET a == Aligned(x, y) IN <<BigAdd(a[1], a[2]), a[3]>>

Compare(x, y) == LET a == Aligned(x, y) IN BigCmp(a[1], a[2])

Distance(x, y) ==
    LET a == Aligned(x, y)
    IN  IF BigCmp(a[1], a[2]) = -1
        THEN <<BigSub(a[2], a[1]), a[3]>>
        ELSE <<BigSub(a[1], a[2]), a[3]>>

Times(x, n) == <<BigMul(x[1], FromNat(n)), x[2]>>

\* |x - y| <= 1e-9 * y: x is y to the relative tolerance 1e-9
Within(x, y) == Compare(Times(Distance(x, y), 10 ^ 9), y) <= 0

RECURSIVE TotalBetween(_, _, _)
\* the exact sum of values[lo..hi]
TotalBetween(values, lo, hi) ==
    IF lo > hi THEN Exact(Zero)
    ELSE IF lo = hi THEN Exact(values[lo])
    ELSE Plus(TotalBetween(values, lo, (lo + hi) \div 2),
              TotalBetween(values, (lo + hi) \div 2 + 1, hi))

\* the exact sum of a sequence of floats
Total(values) == TotalBetween(values, 1, Len(values))

(***************************************************************************)
(* The latest request and what it produced.                                *)
(***************************************************************************)
Quoted == quotation # <<>>

Shown == quotation # <<>> /\ quotation[1].shown # <<>>

TheDescription == request[1].description

TheEncoded == quotation[1].input_encoded

TheFigures == quotation[1].shown[1]

TheSchema == storage.feature_columns

\* the three categorical fields: <<name, the request's value>>
CategoricalFields ==
    << <<s_state, TheDescription.state>>,
       <<s_building_type, TheDescription.building_type>>,
       <<s_labour_type, TheDescription.labour_type>> >>

\* the seven numeric fields: <<name, the request's value>>
NumericFields ==
    << <<s_floor_area_m2, TheDescription.floor_area_m2>>,
       <<s_rooms, TheDescription.rooms>>,
       <<s_lighting_points, TheDescription.lighting_points>>,
       <<s_socket_points, TheDescription.socket_points>>,
       <<s_switch_points, TheDescription.switch_points>>,
       <<s_cable_length_m, TheDescription.cable_length_m>>,
       <<s_conduit_length_m, TheDescription.conduit_length_m>> >>

StartsWith(prefix, name) ==
    Len(prefix) <= Len(name) /\ \A j \in 1..Len(prefix) : name[j] = prefix[j]

\* name holds pattern at some offset
Matches(pattern, name) ==
    \E off \in 0..(Len(name) - Len(pattern)) :
        \A j \in 1..Len(pattern) : name[off + j] = pattern[j]

(***************************************************************************)
(* C1: the encoded vector handed to the model has exactly the schema's     *)
(* columns, each once, in the schema's order: none is missing and no       *)
(* other column (an indicator of a category the schema does not list, a    *)
(* numeric field it does not hold) survives.                               *)
(***************************************************************************)
C1_EncodedColumnsAreSchema ==
    Quoted =>
        /\ Len(TheEncoded) = Len(TheSchema)
        /\ \A i \in 1..Len(TheSchema) : TheEncoded[i][1] = TheSchema[i]
        /\ \A i, j \in 1..Len(TheEncoded) :
              TheEncoded[i][1] = TheEncoded[j][1] => i = j

\* a request whose state's indicator and whose rooms field are no schema
\* columns, under a schema holding columns the request does not produce
C1_Witness ==
    /\ Quoted
    /\ ~ \E i \in 1..Len(TheSchema) :
            TheSchema[i] = s_state \o <<"_">> \o TheDescription.state
    /\ ~ \E i \in 1..Len(TheSchema) : TheSchema[i] = s_rooms
    /\ \E i \in 1..Len(TheSchema) : TheSchema[i] = s_num_rooms

(***************************************************************************)
(* C2: a categorical value the schema does not list for its field is not   *)
(* an error of the encoding: the encoding completes with the schema's      *)
(* columns and no other, and every schema column <field>_<category> of     *)
(* that field is 0.                                                        *)
(***************************************************************************)
Unlisted(field) ==
    ~ \E i \in 1..Len(TheSchema) : TheSchema[i] = field[1] \o <<"_">> \o field[2]

C2_UnseenCategoryEncodesToZeros ==
    Quoted =>
        \A f \in 1..Len(CategoricalFields) :
            Unlisted(CategoricalFields[f]) =>
                /\ Len(TheEncoded) = Len(TheSchema)
                /\ \A i \in 1..Len(TheSchema) :
                      /\ TheEncoded[i][1] = TheSchema[i]
                      /\ StartsWith(CategoricalFields[f][1] \o <<"_">>, TheSchema[i])
                            => TheEncoded[i][2] = 0

\* the building type is not listed although the schema has building type
\* indicators, and the request went through
C2_Witness ==
    /\ Shown
    /\ Unlisted(CategoricalFields[2])
    /\ \E i \in 1..Len(TheSchema) : StartsWith(s_building_type \o <<"_">>, TheSchema[i])

(***************************************************************************)
(* C3: for every state of the multiplier table and every predicted cost,   *)
(* the total is the predicted cost times the state's multiplier of the     *)
(* table (the product as Python computes it), and the multiplier shown is  *)
(* that entry; a prediction of 1,000,000 in Lagos gives 1,150,000.         *)
(***************************************************************************)
\* the enumerated table: <<state, multiplier>>
EnumeratedTable ==
    << <<s_Lagos, Float(115, 100)>>, <<s_Abuja, Float(112, 100)>>,
       <<s_Rivers, Float(110, 100)>>, <<s_Oyo, Float(100, 100)>>,
       <<s_Ogun, Float(95, 100)>>, <<s_Kwara, Float(92, 100)>> >>

\* <<the multiplier the table lists for the state>>, <<>> when it lists none
TableEntry(state) ==
    LET listed == SelectSeq(EnumeratedTable, LAMBDA entry : entry[1] = state)
    IN  IF listed = <<>> THEN <<>> ELSE <<listed[1][2]>>

\* the figures of the example: a raw cost of 1,000,000 quoted in Lagos
ExampleCost == Float(1000000, 1)

ExampleTotal == Float(1150000, 1)

ExampleMaterials == Float(747500, 1)

ExampleLabour == Float(402500, 1)

Share65 == Float(65, 100)

Share35 == Float(35, 100)

C3_TotalIsCostTimesMultiplier ==
    (Quoted /\ TableEntry(TheDescription.state) # <<>>) =>
        /\ Shown
        /\ TheFigures.multiplier = TableEntry(TheDescription.state)[1]
        /\ TheFigures.total_cost =
              fmul(quotation[1].base_cost, TableEntry(TheDescription.state)[1])
        /\ (TheDescription.state = s_Lagos
              /\ quotation[1].base_cost = ExampleCost)
             => TheFigures.total_cost = ExampleTotal

C3_Witness ==
    /\ Shown
    /\ TheDescription.state = s_Lagos
    /\ quotation[1].base_cost = ExampleCost
    /\ TheFigures.total_cost = ExampleTotal

(***************************************************************************)
(* C4: a state outside the multiplier table makes the lookup, and with it  *)
(* the request, fail (Python's KeyError, the script handles no default):   *)
(* no multiplier of 1.0 is applied and no total, materials or labour       *)
(* figure is produced.                                                     *)
(***************************************************************************)
C4_UnknownRegionFails ==
    (Quoted /\ TableEntry(TheDescription.state) = <<>>) =>
        /\ quotation[1].error = "KeyError"
        /\ quotation[1].shown = <<>>

C4_Witness ==
    /\ Quoted
    /\ TheDescription.state = s_Kano
    /\ quotation[1].error = "KeyError"

(***************************************************************************)
(* C5, as claimed: materials plus labour equals the total, materials is    *)
(* exactly 0.65 of the total and labour exactly 0.35 of it.  The sum is    *)
(* taken as Python adds the two figures, the shares as Python multiplies.  *)
(***************************************************************************)
C5_BreakdownSumsExactly ==
    Shown =>
        /\ fadd(TheFigures.material_cost, TheFigures.labour_cost) = TheFigures.total_cost
        /\ TheFigures.material_cost = fmul(TheFigures.total_cost, Share65)
        /\ TheFigures.labour_cost = fmul(TheFigures.total_cost, Share35)

(***************************************************************************)
(* C5, amended: materials plus labour equals the total to the relative     *)
(* tolerance 1e-9, and materials and labour are 0.65 and 0.35 of the total *)
(* to that tolerance; a total of 1,150,000 gives 747,500 and 402,500.      *)
(***************************************************************************)
C5_BreakdownSumsWithinTolerance ==
    Shown =>
        /\ Within(Plus(Exact(TheFigures.material_cost), Exact(TheFigures.labour_cost)),
                  Exact(TheFigures.total_cost))
        /\ Within(Times(Exact(TheFigures.material_cost), 100),
                  Times(Exact(TheFigures.total_cost), 65))
        /\ Within(Times(Exact(TheFigures.labour_cost), 100),
                  Times(Exact(TheFigures.total_cost), 35))
        /\ TheFigures.total_cost = ExampleTotal
             => /\ TheFigures.material_cost = ExampleMaterials
                /\ TheFigures.labour_cost = ExampleLabour

\* a quotation whose materials and labour do not add up to the total
C5_Witness ==
    /\ Shown
    /\ fadd(TheFigures.material_cost, TheFigures.labour_cost) # TheFigures.total_cost

(***************************************************************************)
(* C6: a quotation is a function of the request's description and of the   *)
(* artifact on disk alone, whatever requests ran before, in whatever       *)
(* session (so two requests with the same description get the same raw     *)
(* cost, figures and importances), and no step changes the artifact or,    *)
(* once it is loaded, the cached model and feature_columns.                *)
(***************************************************************************)
C6_QuotationIsDeterministic ==
    /\ [](Quoted =>
            quotation[1] = GenerateQuotation(TheDescription, storage.model,
                                             storage.feature_columns))
    /\ [][storage' = storage /\ (cache # <<>> => cache' = cache)]_vars

\* a request repeats the description of the request before it
C6_Witness ==
    /\ Shown
    /\ request[1].repeated

(***************************************************************************)
(* C7: whatever the reruns, button presses and sessions, the body of       *)
(* load_assets runs at most once, and every run of the script works on     *)
(* the one cached pair.                                                    *)
(***************************************************************************)
C7_LoadedAtMostOnce ==
    /\ loads <= 1
    /\ cache # <<>> => loads = 1
    /\ \A s \in Sessions : assets[s] # <<>> => (loads = 1 /\ assets[s] = cache)

\* a quotation was produced and every session is in a later run
C7_Witness ==
    /\ Quoted
    /\ loads = 1
    /\ \A s \in Sessions : pc[s] = "widgets"

(***************************************************************************)
(* C8 and C9: the grouped importances.                                     *)
(***************************************************************************)
TheScores == TheFigures.importance_df

\* the raw importances of the schema columns whose name holds the pattern
Matching(pattern) ==
    LET hits == SelectSeq([i \in 1..Len(TheSchema) |-> i],
                          LAMBDA i : Matches(pattern, TheSchema[i]))
    IN  [k \in 1..Len(hits) |-> storage.model.feature_importances_[hits[k]]]

ScoreOf(label) ==
    TheScores[CHOOSE i \in 1..Len(TheScores) : TheScores[i][1] = label][2]

\* every schema column matches exactly one of the patterns
PatternsPartitionColumns ==
    \A i \in 1..Len(TheSchema) :
        Cardinality({g \in 1..Len(GROUPS) : Matches(GROUPS[g][2], TheSchema[i])}) = 1

AllScores == [g \in 1..Len(GROUPS) |-> ScoreOf(GROUPS[g][1])]

(***************************************************************************)
(* C8, as claimed: each category's score is the sum of the raw             *)
(* importances of the schema columns whose name contains its pattern       *)
(* (columns matching no pattern count nowhere), and when every column      *)
(* matches exactly one pattern the scores add up to the sum of all raw     *)
(* importances.                                                            *)
(***************************************************************************)
C8_GroupScoresAreExactSums ==
    Shown =>
        /\ \A g \in 1..Len(GROUPS) :
              Compare(Exact(ScoreOf(GROUPS[g][1])),
                      Total(Matching(GROUPS[g][2]))) = 0
        /\ PatternsPartitionColumns =>
              Compare(Total(AllScores), Total(storage.model.feature_importances_)) = 0

(***************************************************************************)
(* C8, amended: the same, each equality to the relative tolerance 1e-9 of  *)
(* floating-point addition.                                                *)
(***************************************************************************)
C8_GroupScoresAreSumsWithinTolerance ==
    Shown =>
        /\ \A g \in 1..Len(GROUPS) :
              Within(Exact(ScoreOf(GROUPS[g][1])),
                     Total(Matching(GROUPS[g][2])))
        /\ PatternsPartitionColumns =>
              Within(Total(AllScores), Total(storage.model.feature_importances_))

\* the patterns partition the columns and the scores do not add up to the
\* raw importances
C8_Witness ==
    /\ Shown
    /\ PatternsPartitionColumns
    /\ Compare(Total(AllScores), Total(storage.model.feature_importances_)) # 0

(***************************************************************************)
(* C9: the importances shown are in ascending order of score, hold every   *)
(* category exactly once, and each category has the score the grouping     *)
(* computed for it.                                                        *)
(***************************************************************************)
Grouped == importance_groups(importance(storage.model, TheSchema))

C9_ScoresAscending ==
    Shown =>
        /\ \A i \in 1..(Len(TheScores) - 1) :
              Compare(Exact(TheScores[i][2]), Exact(TheScores[i + 1][2])) <= 0
        /\ Len(TheScores) = Len(GROUPS)
        /\ \A g \in 1..Len(GROUPS) :
              \E i \in 1..Len(TheScores) :
                  /\ TheScores[i] = Grouped[g]
                  /\ TheScores[i][1] = GROUPS[g][1]

\* the categories are not in ascending order as the dict lists them
C9_Witness ==
    /\ Shown
    /\ \E g \in 1..(Len(GROUPS) - 1) :
          Compare(Exact(Grouped[g][2]), Exact(Grouped[g + 1][2])) = 1

(***************************************************************************)
(* C10: every column of the encoded vector is determined: a column named   *)
(* as a numeric field carries the field's value, a column                  *)
(* <field>_<category> is 1 when the request's value of the field is the    *)
(* category and 0 otherwise (so at most one indicator of a field is 1),    *)
(* every other column is 0; numeric fields that are no schema columns are  *)
(* dropped.                                                                *)
(***************************************************************************)
Expected(name) ==
    IF \E n \in 1..Len(NumericFields) : NumericFields[n][1] = name
    THEN NumericFields[CHOOSE n \in 1..Len(NumericFields) : NumericFields[n][1] = name][2]
    ELSE IF \E f \in 1..Len(CategoricalFields) :
              name = CategoricalFields[f][1] \o <<"_">> \o CategoricalFields[f][2]
    THEN 1
    ELSE 0

C10_EncodedValuesDetermined ==
    Quoted =>
        /\ Len(TheEncoded) = Len(TheSchema)
        /\ \A i \in 1..Len(TheSchema) :
              TheEncoded[i] = <<TheSchema[i], Expected(TheSchema[i])>>
        /\ \A f \in 1..Len(CategoricalFields) :
              Cardinality({i \in 1..Len(TheSchema) :
                              /\ StartsWith(CategoricalFields[f][1] \o <<"_">>, TheSchema[i])
                              /\ TheEncoded[i][2] = 1}) <= 1

\* one indicator set among several of its field, a numeric field passed
\* through and another dropped
C10_Witness ==
    /\ Quoted
    /\ \E i, j \in 1..Len(TheSchema) :
          /\ StartsWith(s_state \o <<"_">>, TheSchema[i]) /\ TheEncoded[i][2] = 1
          /\ StartsWith(s_state \o <<"_">>, TheSchema[j]) /\ TheEncoded[j][2] = 0
    /\ \E i \in 1..Len(TheSchema) :
          TheSchema[i] = s_floor_area_m2 /\ TheEncoded[i][2] = TheDescription.floor_area_m2
    /\ ~ \E i \in 1..Len(TheSchema) : TheSchema[i] = s_switch_points

=============================================================================
